---- MODULE Spec2Model ----
(***************************************************************************)
(* A model of qsync/sync.py: the configuration resolver (load_config and   *)
(* its inner _merge_listdict), the deduplication protocol                  *)
(* (Deduplicatable.deduplicate, SitemapUpdateTask.deduplicate_sitemaps,    *)
(* ShellCmd) and the symbolic-link resolver (_resolve_symlinks,            *)
(* FileMapping.__iter__).                                                  *)
(*                                                                         *)
(* Three state machines share the module:                                  *)
(*   Spec      load_config run on a root document (FairSpec adds the       *)
(*             fairness of a running interpreter);                         *)
(*   SymSpec   FileMapping.__iter__ / _resolve_symlinks on a file system;  *)
(*   DedupSpec Deduplicatable.deduplicate applied once and twice.          *)
(***************************************************************************)
EXTENDS Integers, Sequences, FiniteSets, TLC

VARIABLES
    docs,           \* the configuration files on disk: abs path -> content
    stack,          \* the call stack of load_config, innermost frame last
    visited_paths,  \* the one set object shared by all frames (sync.py:348)
    result,         \* what the outermost load_config call produced
    warnings,       \* the warnings printed by load_config
    next_id,        \* allocation counter: identity of DirMapping objects
    fs,             \* the file system seen by _resolve_symlinks
    request,        \* the FileMapping being iterated
    call,           \* the pending _resolve_symlinks call, innermost only
    outcome,        \* what FileMapping.__iter__ produced
    sym_warnings,   \* the warnings printed by _resolve_symlinks
    items,          \* input list of Deduplicatable.deduplicate
    once,           \* deduplicate(items)
    twice           \* deduplicate(deduplicate(items))

loadVars == <<docs, stack, visited_paths, result, warnings, next_id>>
symVars == <<fs, request, call, outcome, sym_warnings>>
dedupVars == <<items, once, twice>>
vars == <<loadVars, symVars, dedupVars>>

(***************************************************************************)
(* Bounds of the model.                                                    *)
(***************************************************************************)
NumDocs == 4        \* configuration files 1..NumDocs; 1 is the root
MaxEdges == 3       \* include entries in the whole include graph
MaxCmds == 1        \* commands per command list of one document
MaxSitemaps == 1    \* sitemaps entries per document
NumNodes == 3       \* paths of the file system of _resolve_symlinks
MaxItems == 3       \* length of the list handed to deduplicate

None == [kind |-> "None"]

(***************************************************************************)
(* Generic helpers on sequences and sets.                                  *)
(***************************************************************************)
Range(s) == {s[i] : i \in 1..Len(s)}

RECURSIVE Perms(_)
\* every ordering of the finite set S, as sequences without repetition
Perms(S) ==
    IF S = {} THEN {<<>>}
    ELSE UNION {{<<x>> \o p : p \in Perms(S \ {x})} : x \in S}

RECURSIVE SeqsUpTo(_, _)
\* the sequences over S of length at most n
SeqsUpTo(S, n) ==
    IF n = 0 THEN {<<>>}
    ELSE LET shorter == SeqsUpTo(S, n - 1)
         IN  shorter \cup {Append(s, x) : s \in shorter, x \in S}

RECURSIVE Concat(_)
\* the concatenation of a sequence of sequences
Concat(ss) == IF ss = <<>> THEN <<>> ELSE Head(ss) \o Concat(Tail(ss))

(***************************************************************************)
(* ShellCmd (sync.py:202-222).  A command string is a sequence of          *)
(* characters; __init__ strips it and collapses every run of whitespace    *)
(* to one space.  __eq__/__hash__ compare the normalized string.           *)
(***************************************************************************)
IsSpace(c) == c \in {" ", "\t"}

RECURSIVE LStrip(_)
LStrip(s) == IF s # <<>> /\ IsSpace(Head(s)) THEN LStrip(Tail(s)) ELSE s

RECURSIVE RStrip(_)
RStrip(s) ==
    IF s # <<>> /\ IsSpace(s[Len(s)]) THEN RStrip(SubSeq(s, 1, Len(s) - 1)) ELSE s

\* cmd.strip()
Strip(s) == RStrip(LStrip(s))

RECURSIVE CollapseSpaces(_)
\* re.sub(r'\s+', ' ', s)
CollapseSpaces(s) ==
    IF s = <<>> THEN <<>>
    ELSE IF IsSpace(Head(s))
         THEN <<" ">> \o CollapseSpaces(LStrip(s))
         ELSE <<Head(s)>> \o CollapseSpaces(Tail(s))

Normalize(s) == CollapseSpaces(Strip(s))

ShellCmd(cmd) == [kind |-> "ShellCmd", cmd |-> Normalize(cmd)]

\* a raw command string as yaml.safe_load delivers it: a plain str
Str(s) == [kind |-> "str", s |-> s]

(***************************************************************************)
(* SitemapUpdateTask (sync.py:41-81).  path is pathlib.Path(path).resolve():*)
(* several spellings denote one canonical absolute path, and resolving a    *)
(* canonical path gives it back.  Display metadata (relative_path) takes    *)
(* no part in equality, hashing or merging and is left out.                 *)
(***************************************************************************)
PathResolve(p) ==
    CASE p \in {"s.xml", "./s.xml", "/cwd/s.xml"} -> "/cwd/s.xml"
      [] p \in {"t.xml", "/cwd/t.xml"} -> "/cwd/t.xml"

SitemapUpdateTask(path, loc) ==
    [kind |-> "SitemapUpdateTask", path |-> PathResolve(path), loc |-> loc]

(***************************************************************************)
(* FileMapping and DirMapping (sync.py:291-322).  A FileMapping is equal   *)
(* to another on (project_root, local_path, remote_path); a DirMapping     *)
(* defines no __eq__, so it is equal only to itself: id is its identity.   *)
(***************************************************************************)
FileMapping(project_root, local_path, remote_path) ==
    [kind |-> "FileMapping", project_root |-> project_root,
     local_path |-> local_path, remote_path |-> remote_path]

DirMapping(project_root, local_path, remote_path, id) ==
    [kind |-> "DirMapping", project_root |-> project_root,
     local_path |-> local_path, remote_path |-> remote_path, id |-> id]

\* isinstance(x, Deduplicatable): the three subclasses of Deduplicatable
IsDeduplicatable(x) == x.kind \in {"ShellCmd", "FileMapping", "SitemapUpdateTask"}

\* a == b as Python evaluates it on two items
PyEq(a, b) ==
    IF a.kind = "SitemapUpdateTask" /\ b.kind = "SitemapUpdateTask"
    THEN a.path = b.path
    ELSE a = b

(***************************************************************************)
(* Deduplicatable.deduplicate (sync.py:18-38) and                          *)
(* SitemapUpdateTask.deduplicate_sitemaps (sync.py:171-199).  list(set(x)) *)
(* returns the distinct items in an order the hash seed decides, so each   *)
(* operator yields the SET of lists a run can return.                      *)
(***************************************************************************)
\* the items of xs that equal no earlier item: what set(xs) keeps
FirstOccurrences(xs) ==
    {xs[i] : i \in {j \in 1..Len(xs) : \A k \in 1..(j - 1) : ~PyEq(xs[k], xs[j])}}

\* the positions of xs holding the first task of each path, in list order
RECURSIVE FirstPositions(_, _)
FirstPositions(xs, i) ==
    IF i > Len(xs) THEN <<>>
    ELSE IF \E k \in 1..(i - 1) : xs[k].path = xs[i].path
         THEN FirstPositions(xs, i + 1)
         ELSE <<i>> \o FirstPositions(xs, i + 1)

\* a merge in which the later task's loc replaces the earlier one's
ReplacedLocs(xs, i) ==
    LET same == {k \in 1..Len(xs) : xs[k].path = xs[i].path}
    IN  {xs[CHOOSE k \in same : \A m \in same : m <= k].loc}

\* the loc lists path_dict[path].loc can end with after the loop over xs
MergedLocs(xs, i) ==
    LET same == {k \in 1..Len(xs) : xs[k].path = xs[i].path}
    IN  IF same = {i}
        THEN {xs[i].loc}
        ELSE Perms(UNION {Range(xs[k].loc) : k \in same})

RECURSIVE SitemapResults(_, _)
\* the lists list(path_dict.values()) can be, for the first positions ps
SitemapResults(xs, ps) ==
    IF ps = <<>> THEN {<<>>}
    ELSE {<<[kind |-> "SitemapUpdateTask",
             path |-> PathResolve(xs[Head(ps)].path),
             loc |-> l]>> \o rest :
              l \in MergedLocs(xs, Head(ps)),
              rest \in SitemapResults(xs, Tail(ps))}

deduplicate_sitemaps(xs) ==
    IF xs = <<>> THEN {<<>>} ELSE SitemapResults(xs, FirstPositions(xs, 1))

\* a deduplicate that drops only the first repeated item it meets
DropOneDuplicate(xs) ==
    LET dups == {j \in 1..Len(xs) : \E k \in 1..(j - 1) : PyEq(xs[k], xs[j])}
    IN  IF dups = {} THEN {xs}
        ELSE LET j == CHOOSE d \in dups : \A e \in dups : d <= e
             IN  {SubSeq(xs, 1, j - 1) \o SubSeq(xs, j + 1, Len(xs))}

deduplicate(xs) ==
    IF xs = <<>> THEN {<<>>}
    ELSE IF xs[1].kind = "SitemapUpdateTask"
         THEN deduplicate_sitemaps(xs)
         ELSE Perms(FirstOccurrences(xs))

(***************************************************************************)
(* The configuration documents.  A document is what yaml.safe_load returns *)
(* for one file; a key that is absent, None or [] is the empty sequence    *)
(* where load_config treats the three alike (sync.py:373, 423).            *)
(* An include entry is a path name: RootAlias is a second spelling of the  *)
(* root file ("./root.yml") and NoFile a path no file is at.  The entry    *)
(* stands for the path after the join with project_root (sync.py:406-407). *)
(***************************************************************************)
Docs == 1..NumDocs
RootPath == 1
RootAlias == 0
NoFile == NumDocs + 1
IncludePaths == Docs \cup {RootAlias, NoFile}

\* os.path.abspath(config_path)
abspath(p) == IF p = RootAlias THEN RootPath ELSE p

CommandKeys == {"pre_commands", "local_pre_commands", "post_commands", "local_post_commands"}
ScalarKeys == {"remote_host", "temp_dir", "project_root"}

\* the keys load_config merges, in the order of the list at sync.py:432-440
MergeKeys ==
    <<"pre_commands", "local_pre_commands", "_file_mappings", "post_commands",
      "local_post_commands", "_all_sitemaps", "_deduplicatable_files">>

\* config.get('project_root', '')
ProjectRoot(scalars) ==
    IF scalars["project_root"] = "absent" THEN "" ELSE scalars["project_root"]

\* create_file_mappings (sync.py:442-456): the files, then the dirs
create_file_mappings(files, dirs, project_root, id0) ==
    [i \in 1..Len(files) |->
        FileMapping(project_root, files[i].local, files[i].remote)]
    \o
    [i \in 1..Len(dirs) |->
        DirMapping(project_root, dirs[i].local, dirs[i].remote, id0 + i)]

\* the test at sync.py:377
HasPathAndLoc(e) == e.has_path /\ e.has_loc

\* fault: the isinstance test is missing, a str loc is taken as a list
LocUnchecked(e) == FALSE

\* the test at sync.py:380 on an entry that passed sync.py:377
LocIsStr(e) == HasPathAndLoc(e) /\ e.loc_is_str

\* the entries the loop at sync.py:375 reaches: all of them, or those up to
\* the first one that raises
ReachedEntries(sitemaps) ==
    LET bad == {i \in 1..Len(sitemaps) : LocIsStr(sitemaps[i])}
    IN  IF bad = {} THEN 1..Len(sitemaps)
        ELSE {i \in 1..Len(sitemaps) : \A b \in bad : i <= b}

RaisesInvalidSitemap(sitemaps) == \E i \in 1..Len(sitemaps) : LocIsStr(sitemaps[i])

\* the warnings of sync.py:392, one per reached entry lacking path or loc
SitemapWarnings(d, sitemaps) ==
    {[doc |-> d, entry |-> i] :
        i \in {j \in ReachedEntries(sitemaps) : ~HasPathAndLoc(sitemaps[j])}}

RECURSIVE SitemapTasks(_)
\* sitemap_tasks (sync.py:382-383)
SitemapTasks(sitemaps) ==
    IF sitemaps = <<>> THEN <<>>
    ELSE IF HasPathAndLoc(Head(sitemaps))
         THEN <<SitemapUpdateTask(Head(sitemaps).path, Head(sitemaps).loc)>>
              \o SitemapTasks(Tail(sitemaps))
         ELSE SitemapTasks(Tail(sitemaps))

RECURSIVE SitemapFiles(_)
\* deduplicatable_files (sync.py:386-390)
SitemapFiles(sitemaps) ==
    IF sitemaps = <<>> THEN <<>>
    ELSE IF HasPathAndLoc(Head(sitemaps)) /\ Head(sitemaps).has_target
         THEN <<FileMapping("", Head(sitemaps).path, Head(sitemaps).target)>>
              \o SitemapFiles(Tail(sitemaps))
         ELSE SitemapFiles(Tail(sitemaps))

\* the dict load_config holds at sync.py:395 for document doc
Config(doc, id0) ==
    [scalars |-> doc.scalars,
     has_include |-> doc.has_include,
     include |-> doc.include,
     lists |-> [k \in Range(MergeKeys) |->
        CASE k \in CommandKeys -> [i \in 1..Len(doc.cmds[k]) |-> Str(doc.cmds[k][i])]
          [] k = "_file_mappings" ->
                create_file_mappings(doc.files, doc.dirs, ProjectRoot(doc.scalars), id0)
          [] k = "_all_sitemaps" -> SitemapTasks(doc.sitemaps)
          [] k = "_deduplicatable_files" -> SitemapFiles(doc.sitemaps)]]

(***************************************************************************)
(* _merge_listdict (sync.py:417-429).                                      *)
(***************************************************************************)
\* vs after the inner loop (sync.py:421-424)
Collected(ds, key) == Concat([i \in 1..Len(ds) |-> ds[i].lists[key]])

\* fault: the merge starts from the first included document
FirstIncluded(ds) == ds[1]

\* merged = ds[-1].copy() (sync.py:419): the current document's own dict
MergeBase(ds) == ds[Len(ds)]

\* the values merged[key] can have after one round of the outer loop
merge_key(ds, key, merged) ==
    LET vs == Collected(ds, key)
    IN  IF vs = <<>> THEN {merged.lists[key]}
        ELSE IF IsDeduplicatable(vs[1]) THEN deduplicate(vs)
        ELSE {vs}

RECURSIVE merge_keys(_, _, _)
merge_keys(ds, keys, merged) ==
    IF keys = <<>> THEN {merged}
    ELSE UNION {merge_keys(ds, Tail(keys), [merged EXCEPT !.lists[Head(keys)] = v]) :
                    v \in merge_key(ds, Head(keys), merged)}

\* the dicts _merge_listdict(ds, keys) can return
merge_listdict(ds, keys) == merge_keys(ds, keys, MergeBase(ds))

(***************************************************************************)
(* load_config (sync.py:343-441) as a machine over its call stack.         *)
(***************************************************************************)
ValueError(msg) == [kind |-> "error", type |-> "ValueError", msg |-> msg]
OSError(msg) == [kind |-> "error", type |-> "OSError", msg |-> msg]

\* a call load_config(config_path, visited_paths) that has not run yet
CallFrame(config_path) ==
    [config_path |-> config_path, abs |-> abspath(config_path), pc |-> "call",
     config |-> None, idx |-> 0, included_configs |-> <<>>,
     entry_visited |-> visited_paths]

Top == stack[Len(stack)]
Calling == stack # <<>> /\ Top.pc = "call"
Loaded == stack # <<>> /\ Top.pc = "loaded"
Readable(p) == p \in Docs

\* fault: the cycle test looks up the path as written, not its canonical form
VisitedAsWritten(frame) == frame.config_path \in visited_paths

\* the test at sync.py:354, on the canonical path of sync.py:351
AlreadyVisited(frame) == frame.abs \in visited_paths

\* fault: the path is never released, so the set holds every path ever loaded
NeverReleased(visited, abs_config_path) == visited

\* visited_paths.remove(abs_config_path) (sync.py:399, 415)
Release(visited, abs_config_path) == visited \ {abs_config_path}

\* an exception leaves every frame: no frame of load_config catches it
Raise(err) ==
    /\ result' = [err EXCEPT !.kind = "error"] @@ [traceback |-> stack]
    /\ stack' = <<>>

\* the value v goes to the caller (sync.py:410-412) or out of the root call
Return(v) ==
    IF Len(stack) = 1
    THEN /\ result' = [kind |-> "doc", doc |-> v]
         /\ stack' = <<>>
    ELSE /\ stack' = [SubSeq(stack, 1, Len(stack) - 1) EXCEPT
                        ![Len(stack) - 1].included_configs = Append(@, v),
                        ![Len(stack) - 1].idx = @ + 1]
         /\ UNCHANGED result

\* sync(config_path) calls load_config(config_path): visited_paths is None
Start ==
    /\ stack = <<>> /\ result.kind = "none"
    /\ visited_paths' = {}
    /\ stack' = <<[CallFrame(RootPath) EXCEPT !.entry_visited = {}]>>
    /\ UNCHANGED <<docs, result, warnings, next_id, symVars, dedupVars>>

\* sync.py:354-355
RaiseCyclic ==
    /\ Calling /\ AlreadyVisited(Top)
    /\ Raise(ValueError("cyclic include"))
    /\ UNCHANGED <<docs, visited_paths, warnings, next_id, symVars, dedupVars>>

\* sync.py:358-362, open() fails
RaiseUnreadable ==
    /\ Calling /\ ~AlreadyVisited(Top) /\ ~Readable(Top.abs)
    /\ visited_paths' = visited_paths \cup {Top.abs}
    /\ Raise(OSError("open"))
    /\ UNCHANGED <<docs, warnings, next_id, symVars, dedupVars>>

\* sync.py:358-381, an entry with path and loc has a str loc
RaiseInvalidSitemap ==
    /\ Calling /\ ~AlreadyVisited(Top) /\ Readable(Top.abs)
    /\ RaisesInvalidSitemap(docs[Top.abs].sitemaps)
    /\ visited_paths' = visited_paths \cup {Top.abs}
    /\ warnings' = warnings \cup SitemapWarnings(Top.abs, docs[Top.abs].sitemaps)
    /\ Raise(ValueError("sitemap loc is not a list"))
    /\ UNCHANGED <<docs, next_id, symVars, dedupVars>>

\* sync.py:346-395 without a raise
LoadConfig ==
    /\ Calling /\ ~AlreadyVisited(Top) /\ Readable(Top.abs)
    /\ ~RaisesInvalidSitemap(docs[Top.abs].sitemaps)
    /\ visited_paths' = visited_paths \cup {Top.abs}
    /\ warnings' = warnings \cup SitemapWarnings(Top.abs, docs[Top.abs].sitemaps)
    /\ next_id' = next_id + Len(docs[Top.abs].dirs)
    /\ stack' = [stack EXCEPT ![Len(stack)].pc = "loaded",
                              ![Len(stack)].config = Config(docs[Top.abs], next_id),
                              ![Len(stack)].idx = 1]
    /\ UNCHANGED <<docs, result, symVars, dedupVars>>

\* sync.py:398-400
ReturnLeaf ==
    /\ Loaded /\ ~Top.config.has_include
    /\ visited_paths' = Release(visited_paths, Top.abs)
    /\ Return(Top.config)
    /\ UNCHANGED <<docs, warnings, next_id, symVars, dedupVars>>

\* sync.py:404-410: the next include entry is loaded with the same set
Recurse ==
    /\ Loaded /\ Top.config.has_include /\ Top.idx <= Len(Top.config.include)
    /\ stack' = Append(stack, CallFrame(Top.config.include[Top.idx]))
    /\ UNCHANGED <<docs, visited_paths, result, warnings, next_id, symVars, dedupVars>>

\* sync.py:415-441
MergeReturn ==
    /\ Loaded /\ Top.config.has_include /\ Top.idx > Len(Top.config.include)
    /\ visited_paths' = Release(visited_paths, Top.abs)
    /\ \E merged \in merge_listdict(Append(Top.included_configs, Top.config), MergeKeys) :
          Return(merged)
    /\ UNCHANGED <<docs, warnings, next_id, symVars, dedupVars>>

(***************************************************************************)
(* The documents load_config is run on.                                    *)
(***************************************************************************)
NoScalars == [k \in ScalarKeys |-> "absent"]
NoCmds == [k \in CommandKeys |-> <<>>]

EmptyDoc ==
    [has_include |-> FALSE, include |-> <<>>, scalars |-> NoScalars, cmds |-> NoCmds,
     files |-> <<>>, dirs |-> <<>>, sitemaps |-> <<>>]

RECURSIVE ReachFrom(_, _)
\* the documents reachable from those of S through the include lists of g
ReachFrom(g, S) ==
    LET more == S \cup (UNION {Range(g[d]) : d \in S})
    IN  IF more = S THEN S ELSE ReachFrom(g, more)

RECURSIVE GraphsWith(_)
\* the include graphs with at most k include entries, each entry written in
\* a document the root reaches
GraphsWith(k) ==
    IF k = 0 THEN {[d \in Docs |-> <<>>]}
    ELSE LET fewer == {<<g, ReachFrom(g, {RootPath})>> : g \in GraphsWith(k - 1)}
         IN  {[gr[1] EXCEPT ![s] = IF s \in gr[2] THEN Append(@, t) ELSE @] :
                 gr \in fewer, s \in Docs, t \in Docs}

IncludeGraphs == GraphsWith(MaxEdges)

IncludeDoc(inc) == [EmptyDoc EXCEPT !.has_include = TRUE, !.include = inc]

\* any include graph over Docs; documents hold nothing but their includes
GraphDocs ==
    \E g \in IncludeGraphs :
        docs = [d \in Docs |-> IF g[d] = <<>> THEN EmptyDoc ELSE IncludeDoc(g[d])]

\* the root includes one path and document 2 has no include key, an empty
\* include list or one path, in any spelling
PathDocs ==
    \E p \in IncludePaths, q \in SeqsUpTo(IncludePaths, 1), has \in BOOLEAN :
        /\ q # <<>> => has
        /\ docs = [d \in Docs |->
                      CASE d = 1 -> IncludeDoc(<<p>>)
                        [] d = 2 -> [EmptyDoc EXCEPT !.has_include = has, !.include = q]
                        [] OTHER -> EmptyDoc]

(***************************************************************************)
(* Documents for the merge: the root C = 1 includes A = 2 and B = 3, in    *)
(* that order, and the three documents differ in one group of keys.        *)
(***************************************************************************)
MergeShape(content) ==
    [d \in Docs |->
        CASE d = 1 -> [content[1] EXCEPT !.has_include = TRUE, !.include = <<2, 3>>]
          [] d \in {2, 3} -> content[d]
          [] OTHER -> EmptyDoc]

\* "a b" in two spellings, and another command
RawCmds == {<<"a", " ", "b">>, <<" ", "a", "\t", " ", "b">>, <<"c">>}

CmdDocs ==
    \E key \in CommandKeys, c \in [1..3 -> SeqsUpTo(RawCmds, MaxCmds)] :
        docs = MergeShape([d \in 1..3 |-> [EmptyDoc EXCEPT !.cmds[key] = c[d]]])

ScalarChoices ==
    {NoScalars,
     [k \in ScalarKeys |-> "v1"],
     [k \in ScalarKeys |-> "v2"],
     [k \in ScalarKeys |-> CASE k = "remote_host" -> "v1"
                             [] k = "temp_dir" -> "absent"
                             [] k = "project_root" -> "v2"]}

ScalarDocs ==
    \E c \in [1..3 -> ScalarChoices] :
        docs = MergeShape([d \in 1..3 |-> [EmptyDoc EXCEPT !.scalars = c[d]]])

Pair(local, remote) == [local |-> local, remote |-> remote]

\* resources: the files mapping and the dirs mapping of one document
ResourceChoices ==
    {[files |-> <<>>, dirs |-> <<>>],
     [files |-> <<Pair("f1", "r1")>>, dirs |-> <<>>],
     [files |-> <<Pair("f2", "r2")>>, dirs |-> <<>>],
     [files |-> <<Pair("f2", "r2"), Pair("f1", "r1")>>, dirs |-> <<>>],
     [files |-> <<>>, dirs |-> <<Pair("d1", "r3")>>]}

FileDocs ==
    \E c \in [1..3 -> ResourceChoices] :
        docs = MergeShape([d \in 1..3 |-> [EmptyDoc EXCEPT !.files = c[d].files,
                                                          !.dirs = c[d].dirs]])

Entry(has_path, path, has_loc, loc_is_str, loc, has_target, target) ==
    [has_path |-> has_path, path |-> path, has_loc |-> has_loc,
     loc_is_str |-> loc_is_str, loc |-> loc,
     has_target |-> has_target, target |-> target]

\* sitemaps entries: two well-formed ones for one file under two spellings,
\* one without path, one without loc, one whose loc is a str
EntryChoices ==
    {Entry(TRUE, "s.xml", TRUE, FALSE, <<"u1", "u2">>, FALSE, ""),
     Entry(TRUE, "./s.xml", TRUE, FALSE, <<"u2", "u3">>, TRUE, "r4"),
     Entry(FALSE, "", TRUE, FALSE, <<"u1">>, FALSE, ""),
     Entry(TRUE, "t.xml", FALSE, FALSE, <<>>, TRUE, "r5"),
     Entry(TRUE, "t.xml", TRUE, TRUE, <<>>, FALSE, "")}

\* C holds up to MaxSitemaps entries, A and B at most one each
SitemapDocs ==
    \E c \in SeqsUpTo(EntryChoices, MaxSitemaps),
       ab \in [{2, 3} -> SeqsUpTo(EntryChoices, 1)] :
        docs = MergeShape([d \in 1..3 |->
                   [EmptyDoc EXCEPT !.sitemaps = IF d = 1 THEN c ELSE ab[d]]])

\* the diamond: C = 1 includes A = 2 and B = 3, and both include D = 4,
\* which holds resources and a command
DiamondDocs ==
    \E r \in ResourceChoices, c \in SeqsUpTo(RawCmds, 1) :
        docs = [d \in Docs |->
                  CASE d = 1 -> IncludeDoc(<<2, 3>>)
                    [] d \in {2, 3} -> IncludeDoc(<<4>>)
                    [] d = 4 -> [EmptyDoc EXCEPT !.files = r.files, !.dirs = r.dirs,
                                                !.cmds["pre_commands"] = c]
                    [] OTHER -> EmptyDoc]

LoadInit ==
    /\ \/ GraphDocs \/ PathDocs \/ DiamondDocs
       \/ CmdDocs \/ ScalarDocs \/ FileDocs \/ SitemapDocs
    /\ stack = <<>>
    /\ visited_paths = {}
    /\ result = [kind |-> "none"]
    /\ warnings = {}
    /\ next_id = 0

(***************************************************************************)
(* _resolve_symlinks (sync.py:232-288) and FileMapping.__iter__            *)
(* (sync.py:299-301).  The file system is a set of absolute paths, each a  *)
(* regular file, a directory, a symbolic link to another path, a special   *)
(* file or nothing.  A path value is absolute (Abs) or relative to the     *)
(* project root "P" (Rel).  readlink failing on a link that lstat just     *)
(* reported is left out.                                                   *)
(***************************************************************************)
Nodes == 1..NumNodes
Abs(n) == [form |-> "abs", node |-> n]
Rel(n) == [form |-> "rel", node |-> n]

\* os.path.join(project_root, local_path): an absolute local_path wins
Join(project_root, local_path) ==
    IF local_path.form = "abs" \/ project_root = "" THEN local_path
    ELSE Abs(local_path.node)

\* os.path.abspath(full_local_path), as the path's node
AbsPath(full) == full.node

RECURSIVE StatKind(_, _, _)
\* what os.stat finds at node n following links; "loop" is ELOOP
StatKind(f, n, fuel) ==
    IF f[n].kind # "link" THEN f[n].kind
    ELSE IF fuel = 0 THEN "loop"
    ELSE StatKind(f, f[n].target, fuel - 1)

\* os.path.exists follows links; a broken link or a link loop is False
exists(f, n) == StatKind(f, n, NumNodes) \in {"file", "dir", "other"}
islink(f, n) == f[n].kind = "link"
isfile(f, n) == StatKind(f, n, NumNodes) = "file"

\* fault: the directory test never answers True
NeverDir(f, n) == FALSE

isdir(f, n) == StatKind(f, n, NumNodes) = "dir"

\* the tuple (project_root, local_path, remote_path)
Triple(project_root, local_path, remote_path) ==
    [kind |-> "tuple", project_root |-> project_root,
     local_path |-> local_path, remote_path |-> remote_path]

Returned(value, warning) ==
    [kind |-> "return", value |-> value, warning |-> warning]
Raised(type) == [kind |-> "raise", type |-> type]
Calls(c) == [kind |-> "call", call |-> c]

\* sync.py:252-254
CycleResult == Returned(None, "cycle")

\* a missing path treated as an error
MissingRaises == Raised("FileNotFoundError")

\* sync.py:259-261
MissingResult == Returned(None, "missing")

\* a recursive call that keeps the caller's project root
LinkCallKeepingRoot(c, target, visited) ==
    [project_root |-> c.project_root, local_path |-> Abs(target),
     remote_path |-> c.remote_path, visited |-> visited, depth |-> c.depth + 1]

\* sync.py:266-276: the recursive call on the link's target
LinkCall(c, target, visited) ==
    [project_root |-> "", local_path |-> Abs(target),
     remote_path |-> c.remote_path, visited |-> visited, depth |-> c.depth + 1]

\* one activation of _resolve_symlinks up to its return, raise or recursion
resolve_symlinks(f, c) ==
    LET full_local_path == Join(c.project_root, c.local_path)
        abs_path == AbsPath(full_local_path)
        visited == c.visited \cup {abs_path}
    IN  IF abs_path \in c.visited THEN CycleResult
        ELSE IF ~exists(f, abs_path) THEN MissingResult
        ELSE IF islink(f, abs_path)
             THEN Calls(LinkCall(c, f[abs_path].target, visited))
        ELSE IF isfile(f, abs_path)
             THEN Returned(Triple(c.project_root, c.local_path, c.remote_path), "")
        ELSE IF isdir(f, abs_path) THEN Raised("RuntimeError")
        ELSE Returned(None, "")

\* FileMapping.__iter__ calls _resolve_symlinks with visited = None
Iterate ==
    /\ call = None /\ outcome = None
    /\ call' = [project_root |-> request.project_root,
                local_path |-> request.local_path,
                remote_path |-> request.remote_path,
                visited |-> {}, depth |-> 1]
    /\ UNCHANGED <<fs, request, outcome, sym_warnings, loadVars, dedupVars>>

\* the innermost activation runs; a return or raise passes through every
\* outer activation unchanged (sync.py:276) and __iter__ yields it
ResolveSymlinks ==
    /\ call # None
    /\ LET r == resolve_symlinks(fs, call)
       IN  IF r.kind = "call"
           THEN /\ call' = r.call
                /\ UNCHANGED <<outcome, sym_warnings>>
           ELSE /\ call' = None
                /\ outcome' = IF r.kind = "raise" THEN r
                              ELSE [kind |-> "yield", value |-> r.value]
                /\ sym_warnings' =
                      IF r.kind = "return" /\ r.warning # ""
                      THEN sym_warnings \cup {r.warning} ELSE sym_warnings
    /\ UNCHANGED <<fs, request, loadVars, dedupVars>>

\* the items create_tar takes from the iterator: it skips None
ArchivedItems ==
    IF outcome.kind = "yield" /\ outcome.value # None
    THEN {outcome.value} ELSE {}

\* a path is a file, a directory, a special file, nothing, or a link
NodeChoices(n) ==
    {[kind |-> k, target |-> n] : k \in {"file", "dir", "other", "missing"}}
    \cup {[kind |-> "link", target |-> t] : t \in Nodes}

Requests ==
    {FileMapping("P", Rel(n), "r") : n \in Nodes}
    \cup {FileMapping("", Abs(n), "r") : n \in Nodes}

SymIdle ==
    /\ fs = <<>> /\ request = None /\ call = None /\ outcome = None
    /\ sym_warnings = {}

LoadIdle ==
    /\ docs = <<>> /\ stack = <<>> /\ visited_paths = {}
    /\ result = [kind |-> "none"] /\ warnings = {} /\ next_id = 0

SymInputs ==
    /\ fs \in {f \in [Nodes -> UNION {NodeChoices(n) : n \in Nodes}] :
                  \A n \in Nodes : f[n] \in NodeChoices(n)}
    /\ request \in Requests
    /\ call = None /\ outcome = None /\ sym_warnings = {}

(***************************************************************************)
(* Deduplicatable.deduplicate applied to a list, then to its own result.   *)
(***************************************************************************)
CmdItems == {ShellCmd(c) : c \in RawCmds}

FileItems ==
    {FileMapping("", "f1", "r1"), FileMapping("P", "f1", "r1"),
     FileMapping("", "f2", "r2")}

TaskItems ==
    {SitemapUpdateTask(path, loc) :
        path \in {"s.xml", "./s.xml", "t.xml"},
        loc \in {<<>>, <<"u1", "u2">>, <<"u2", "u3">>}}

\* the non-empty lists of one item kind
ItemLists ==
    (SeqsUpTo(CmdItems, MaxItems) \cup SeqsUpTo(FileItems, MaxItems)
        \cup SeqsUpTo(TaskItems, MaxItems)) \ {<<>>}

DedupIdle == items = <<>> /\ once = <<>> /\ twice = <<>>

DedupInputs == items \in ItemLists /\ once = <<>> /\ twice = <<>>

DedupOnce ==
    /\ items # <<>> /\ once = <<>>
    /\ once' \in deduplicate(items)
    /\ UNCHANGED <<items, twice, loadVars, symVars>>

DedupTwice ==
    /\ once # <<>> /\ twice = <<>>
    /\ twice' \in deduplicate(once)
    /\ UNCHANGED <<items, once, loadVars, symVars>>

(***************************************************************************)
(* The specifications.                                                     *)
(***************************************************************************)
Init == LoadInit /\ SymIdle /\ DedupIdle

Next ==
    \/ Start
    \/ RaiseCyclic
    \/ RaiseUnreadable
    \/ RaiseInvalidSitemap
    \/ LoadConfig
    \/ ReturnLeaf
    \/ Recurse
    \/ MergeReturn

Spec == Init /\ [][Next]_vars

\* the interpreter keeps running load_config until it returns or raises
FairSpec == Spec /\ WF_vars(Next)

SymNext == Iterate \/ ResolveSymlinks

SymInit == LoadIdle /\ SymInputs /\ DedupIdle

SymSpec == SymInit /\ [][SymNext]_vars

\* the interpreter keeps running the iterator until it yields or raises
SymFairSpec == SymSpec /\ WF_vars(SymNext)

DedupNext == DedupOnce \/ DedupTwice

DedupInit == LoadIdle /\ SymIdle /\ DedupInputs

DedupSpec == DedupInit /\ [][DedupNext]_vars

(***************************************************************************)
(* Properties of load_config.  The predicates below read the documents on  *)
(* disk directly and use none of the operators of the machine.             *)
(***************************************************************************)
Done == result.kind # "none"

\* the file an include entry names
FileOf(p) == IF p = RootAlias THEN RootPath ELSE p

IncludesOf(d) == IF docs[d].has_include THEN docs[d].include ELSE <<>>

IncludedFiles(d) == {FileOf(IncludesOf(d)[i]) : i \in 1..Len(IncludesOf(d))}

RECURSIVE Closure(_)
\* the paths reachable from those of S through include entries
Closure(S) ==
    LET more == S \cup (UNION {IncludedFiles(d) : d \in S \cap Docs})
    IN  IF more = S THEN S ELSE Closure(more)

\* the documents of the include tree of the root
TreeDocs == Closure({RootPath}) \cap Docs

\* some document of the tree is reachable from itself
CyclicTree == \E d \in TreeDocs : d \in Closure(IncludedFiles(d))

AllReadable == NoFile \notin Closure({RootPath})

StrLoc(e) == e.has_path /\ e.has_loc /\ e.loc_is_str

Malformed(e) == ~e.has_path \/ ~e.has_loc \/ e.loc_is_str

SomeStrLoc ==
    \E d \in TreeDocs : \E i \in 1..Len(docs[d].sitemaps) : StrLoc(docs[d].sitemaps[i])

IsCyclicError ==
    result.kind = "error" /\ result.type = "ValueError" /\ result.msg = "cyclic include"

IsSitemapError ==
    /\ result.kind = "error" /\ result.type = "ValueError"
    /\ result.msg = "sitemap loc is not a list"

RECURSIVE PathCount(_, _, _)
RECURSIVE PathSum(_, _, _, _)
\* the number of include paths from document a to document b
PathCount(a, b, fuel) ==
    IF a = b THEN 1
    ELSE IF fuel = 0 \/ a \notin Docs THEN 0
    ELSE PathSum(a, b, Len(IncludesOf(a)), fuel)

PathSum(a, b, i, fuel) ==
    IF i = 0 THEN 0
    ELSE PathCount(FileOf(IncludesOf(a)[i]), b, fuel - 1) + PathSum(a, b, i - 1, fuel)

\* some document is reached from the root through two include paths
SharedDoc == \E d \in TreeDocs : PathCount(RootPath, d, NumDocs) >= 2

RECURSIVE Work(_, _)
RECURSIVE WorkList(_, _, _)
\* an upper bound on the steps load_config(p) takes while the files of
\* resolving are being resolved: one step for a call that raises at once,
\* else the load, the return, and each include entry's call and its work
Work(p, resolving) ==
    IF FileOf(p) \in resolving \/ FileOf(p) \notin Docs THEN 1
    ELSE 2 + WorkList(IncludesOf(FileOf(p)), 1, resolving \cup {FileOf(p)})

WorkList(inc, i, resolving) ==
    IF i > Len(inc) THEN 0
    ELSE 1 + Work(inc[i], resolving) + WorkList(inc, i + 1, resolving)

\* the work left in frame j of the stack
FrameWork(j) ==
    LET below == {stack[i].abs : i \in 1..(j - 1)}
        next == IF j = Len(stack) THEN stack[j].idx ELSE stack[j].idx + 1
    IN  IF stack[j].pc = "call" THEN Work(stack[j].config_path, below)
        ELSE 1 + WorkList(IncludesOf(stack[j].abs), next, below \cup {stack[j].abs})

RECURSIVE StackWork(_)
StackWork(j) == IF j = 0 THEN 0 ELSE FrameWork(j) + StackWork(j - 1)

\* a variant of load_config: the steps left, at most
StepsLeft ==
    IF Done THEN 0
    ELSE IF stack = <<>> THEN 1 + Work(RootPath, {})
    ELSE StackWork(Len(stack))

\* C1: load_config on the root terminates for every include graph: it ends
\* by returning or raising, every step lowers the bound StepsLeft on the
\* steps left, and the recursion never goes deeper than the documents
\* there are.  When every include names a readable, well-formed
\* document, it returns one merged document if no document is reachable
\* from itself and fails with the cyclic-include error if the graph holds a
\* cycle of any length.
C1_IncludeResolution ==
    /\ [](Len(stack) <= NumDocs + 1)
    /\ [][StepsLeft' < StepsLeft]_vars
    /\ [](Done /\ AllReadable /\ ~SomeStrLoc =>
            IF CyclicTree THEN IsCyclicError ELSE result.kind = "doc")
    /\ <>Done

\* a cycle through two or more documents was met and reported
C1_LongCycleReported ==
    /\ IsCyclicError
    /\ \E i \in 1..(Len(result.traceback) - 2) :
          result.traceback[i].abs = result.traceback[Len(result.traceback)].abs

RECURSIVE OrderedDedup(_)
\* xs without the items equal to an earlier item, order kept
OrderedDedup(xs) ==
    IF xs = <<>> THEN <<>>
    ELSE LET front == OrderedDedup(SubSeq(xs, 1, Len(xs) - 1))
             last == xs[Len(xs)]
         IN  IF \E i \in 1..Len(front) : PyEq(front[i], last)
             THEN front ELSE Append(front, last)

SameItems(a, b) == Len(a) = Len(b) /\ \A i \in 1..Len(a) : PyEq(a[i], b[i])

\* the lists of key k of the resolved included documents, then the current
ListsInOrder(frame, k) ==
    Concat([i \in 1..Len(frame.included_configs) |-> frame.included_configs[i].lists[k]])
    \o frame.config.lists[k]

\* C2: when the root C returns the merge of its included documents [A, B]
\* and itself, every merged list is the concatenation A.L, B.L, C.L with
\* each item equal to an earlier one removed, in first-occurrence order.
C2_MergeKeepsFirstOccurrences ==
    [][(Loaded /\ Len(stack) = 1 /\ Len(Top.included_configs) = 2
            /\ result'.kind = "doc") =>
        \A k \in Range(MergeKeys) :
            SameItems(result'.doc.lists[k], OrderedDedup(ListsInOrder(Top, k)))]_vars

\* C5: the visited set holds exactly the documents being resolved on the
\* call stack, and an acyclic include graph in which a document is reached
\* through two include paths never raises the cyclic-include error: with
\* readable, well-formed documents load_config returns a document.
C5_SharedIncludeIsLegal ==
    /\ result.kind # "error" =>
          visited_paths = {stack[i].abs : i \in {j \in 1..Len(stack) : stack[j].pc = "loaded"}}
    /\ SharedDoc /\ ~CyclicTree => ~IsCyclicError
    /\ Done /\ SharedDoc /\ ~CyclicTree /\ AllReadable /\ ~SomeStrLoc => result.kind = "doc"

\* C includes A and B, both include D, and load_config returned a document
C5_DiamondResolved ==
    /\ result.kind = "doc"
    /\ docs[1].has_include /\ docs[1].include = <<2, 3>>
    /\ docs[2].has_include /\ docs[2].include = <<4>>
    /\ docs[3].has_include /\ docs[3].include = <<4>>
    /\ ~docs[4].has_include

C7_ScalarsOfCurrent ==
    (result.kind = "doc" /\ docs[RootPath].has_include /\ docs[RootPath].include # <<>>)
    => result.doc.scalars = docs[RootPath].scalars

\* the root declares remote_host v2, its first include declares v1
C7_IncludedHostDiffers ==
    /\ result.kind = "doc"
    /\ docs[RootPath].include = <<2, 3>>
    /\ docs[RootPath].scalars["remote_host"] = "v2"
    /\ docs[2].scalars["remote_host"] = "v1"

\* C10: no command list of the document load_config returns holds two
\* commands that are equal after whitespace normalization.
C10_NoEquivalentCommands ==
    result.kind = "doc" =>
        \A k \in CommandKeys :
            \A i, j \in 1..Len(result.doc.lists[k]) :
                i < j => Normalize(result.doc.lists[k][i].s)
                            # Normalize(result.doc.lists[k][j].s)

(***************************************************************************)
(* Properties of deduplicate.                                              *)
(***************************************************************************)
TaskPaths(xs) == {xs[i].path : i \in 1..Len(xs)}

\* the locations of the tasks of xs with path p
LocsOf(xs, p) ==
    UNION {Range(xs[i].loc) : i \in {j \in 1..Len(xs) : xs[j].path = p}}

SitemapList == items # <<>> /\ items[1].kind = "SitemapUpdateTask"

\* C3: deduplicating a non-empty list of sitemap tasks returns exactly one
\* task per canonical path of the input, and the locations of that task are
\* the union of the locations of the input tasks with that path.
C3_SitemapUnion ==
    SitemapList /\ once # <<>> =>
        /\ TaskPaths(once) = TaskPaths(items)
        /\ \A p \in TaskPaths(items) :
              /\ Cardinality({i \in 1..Len(once) : once[i].path = p}) = 1
              /\ LocsOf(once, p) = LocsOf(items, p)

\* two spellings of one path with locations {u1,u2} and {u2,u3} merged
\* into one task with locations {u1,u2,u3}
C3_TwoTasksMerged ==
    /\ items = <<SitemapUpdateTask("s.xml", <<"u1", "u2">>),
                 SitemapUpdateTask("./s.xml", <<"u2", "u3">>)>>
    /\ Len(once) = 1
    /\ Range(once[1].loc) = {"u1", "u2", "u3"}
    /\ Len(once[1].loc) = 3

\* a holds an item equal to x, with the same locations for a sitemap task
HasSame(a, x) ==
    \E j \in 1..Len(a) :
        /\ PyEq(a[j], x)
        /\ x.kind = "SitemapUpdateTask" => Range(a[j].loc) = Range(x.loc)

\* C9: deduplicate(deduplicate(xs)) has the length of deduplicate(xs) and
\* the same items, with the same locations for sitemap tasks.
C9_DedupIdempotent ==
    twice # <<>> =>
        /\ Len(twice) = Len(once)
        /\ \A i \in 1..Len(once) : HasSame(twice, once[i])
        /\ \A i \in 1..Len(twice) : HasSame(once, twice[i])

\* a list of three items with one repeat was deduplicated twice
C9_RepeatRemovedOnce ==
    Len(items) = 3 /\ Len(once) = 2 /\ Len(twice) = 2

(***************************************************************************)
(* Properties of _resolve_symlinks.  The predicates below walk the links   *)
(* of the file system directly.                                            *)
(***************************************************************************)
RequestNode == request.local_path.node

RECURSIVE Follow(_, _)
\* the path reached from n after k links; 0 when the chain ends before
Follow(n, k) ==
    IF k = 0 THEN n
    ELSE IF fs[n].kind = "link" THEN Follow(fs[n].target, k - 1)
    ELSE 0

\* the requested path is a link and following links never leaves links
EntersLinkCycle ==
    \A k \in 0..NumNodes : Follow(RequestNode, k) # 0
                            /\ fs[Follow(RequestNode, k)].kind = "link"

\* the requested path reaches regular file n through k links
ReachesFile(n, k) ==
    Follow(RequestNode, k) = n /\ fs[n].kind = "file"

Requested ==
    Triple(request.project_root, request.local_path, request.remote_path)

\* C4 as claimed: a mapping that reaches a regular file through one or more
\* links yields exactly the requested triple (root, localPath, remotePath).
C4_YieldsRequestedTriple ==
    outcome # None =>
        \A n \in Nodes, k \in 1..NumNodes :
            ReachesFile(n, k) => ArchivedItems = {Requested}

\* C4 amended: a mapping that reaches regular file n through one or more
\* links yields exactly one triple, with an empty root, the path of n as
\* local path and the requested remote path; a mapping that names a regular
\* file directly yields the requested triple.
C4_YieldsFinalTarget ==
    outcome # None =>
        /\ \A n \in Nodes, k \in 1..NumNodes :
              ReachesFile(n, k) =>
                  ArchivedItems = {Triple("", Abs(n), request.remote_path)}
        /\ fs[RequestNode].kind = "file" => ArchivedItems = {Requested}

\* a relative path under root P led through two links to a regular file
C4_TwoLinksResolved ==
    /\ outcome # None /\ ArchivedItems # {}
    /\ request.project_root = "P"
    /\ \E n \in Nodes : ReachesFile(n, 2)

\* C8: iterating a mapping whose path enters a cycle of links ends, without
\* nesting calls deeper than the paths there are; it ends by yielding no
\* mapping to archive, after a warning, and never by raising.
C8_LinkCycleSkipped ==
    /\ [](call # None => call.depth <= NumNodes + 1)
    /\ [](EntersLinkCycle /\ outcome # None =>
            /\ outcome.kind = "yield"
            /\ ArchivedItems = {}
            /\ sym_warnings # {})
    /\ EntersLinkCycle ~> (outcome # None)

\* the cycle 1 -> 2 -> 1 was skipped
C8_TwoCycleSkipped ==
    /\ NumNodes >= 2
    /\ fs[1] = [kind |-> "link", target |-> 2]
    /\ fs[2] = [kind |-> "link", target |-> 1]
    /\ RequestNode = 1
    /\ outcome = [kind |-> "yield", value |-> None]
    /\ sym_warnings # {}

\* the requested path reaches, through k links, a path of the given kind
ReachesKind(kind, k) ==
    /\ Follow(RequestNode, k) # 0
    /\ fs[Follow(RequestNode, k)].kind = kind

\* C11: iterating a single-file mapping whose path is a directory, named
\* directly or through links, ends by raising: it yields nothing to
\* archive and no None to skip.  A path that does not exist, named directly
\* or through links, raises nothing: after a warning the iterator yields
\* None, which is skipped.
C11_DirectoryRaisesMissingSkips ==
    outcome # None =>
        \A k \in 0..NumNodes :
            /\ ReachesKind("dir", k) =>
                  outcome.kind = "raise" /\ ArchivedItems = {}
            /\ ReachesKind("missing", k) =>
                  /\ outcome = [kind |-> "yield", value |-> None]
                  /\ "missing" \in sym_warnings

\* a link to a directory ended the iteration with an error
C11_LinkToDirectoryRaised ==
    /\ outcome # None /\ outcome.kind = "raise"
    /\ ReachesKind("dir", 1)

(***************************************************************************)
(* The visited set across a call of load_config.                           *)
(***************************************************************************)
\* C12: a call of load_config that ends leaves visited_paths as it found
\* it (entry_visited): the innermost call when it returns, and every call
\* on the stack when an exception ends them all.
C12_VisitedSetRestored ==
    [][/\ (Len(stack') < Len(stack) /\ result'.kind # "error")
            => visited_paths' = Top.entry_visited
       /\ (result.kind = "none" /\ result'.kind = "error")
            => \A j \in 1..Len(stack) : visited_paths' = stack[j].entry_visited]_vars

====
